---- MODULE Spec2Model ----
(***************************************************************************)
(* Authentication core of the CMS API: the refresh-token store of          *)
(* lib/auth.ts, the login / register / refresh route handlers that use it, *)
(* and the web client's logout.  Every `await` on the database is a        *)
(* separate step of a request, so concurrent requests interleave at the    *)
(* store calls exactly as the handlers do.  A store call can fail (the     *)
(* promise rejects); what each caller does with the rejection is modelled  *)
(* from its try/catch.                                                     *)
(***************************************************************************)
EXTENDS Integers, FiniteSets, Sequences, Bags, TLC

\* ---------------------------------------------------------------- bounds
MaxTokens == 3     \* nanoid(64) values drawn in one behaviour
MaxTime == 8       \* last clock value (days)
MaxVersion == 3    \* highest version a content item reaches
MaxCalls == 6      \* highest value a rate-limit counter reaches
MaxRateTime == 3   \* last value of the rate limiter's clock (windows are 2)
MaxLikes == 2      \* highest likes count a comment reaches

\* ------------------------------------------------------------- constants
REFRESH_TOKEN_DAYS == 7    \* expiresAt.setDate(expiresAt.getDate() + 7)

Req == {1, 2}      \* two requests in flight: the races are between two
TokenValues == 1..MaxTokens
Emails == {"a@b.com", "oauth@b.com", "new@b.com"}
Passwords == {"Password123", "Password124"}

\* the instants at which the clock is read: the start, and the days from
\* the expiry of a token issued at the start onwards
Instants == {0} \cup (REFRESH_TOKEN_DAYS..MaxTime)

\* ------------------------------------------------------------ null values
NoPassword == <<>>                       \* User.password = null
NoUser == [id |-> 0, email |-> "", password |-> NoPassword, role |-> ""]
\* a handler's `user` before the lookup has assigned it
Unset == [id |-> -1, email |-> "", password |-> NoPassword, role |-> ""]
NoAccessToken == [userId |-> 0, email |-> "", role |-> "", secret |-> ""]
NoRecord == [token |-> 0, userId |-> 0, expiresAt |-> 0]
NoResp == [status |-> 0, error |-> "", headers |-> {},
           accessToken |-> NoAccessToken, refreshToken |-> 0]

VARIABLES
    users,          \* prisma.user table: set of user records
    store,          \* prisma.refreshToken table: set of token records
    now,            \* the clock read by new Date()
    nanoidCount,    \* number of values nanoid(64) has produced so far
    req,            \* the in-flight requests: handler position and locals
    localStorage,   \* the web client's stored refreshToken (0 = none)
    env,            \* process.env.JWT_SECRET ("" = not set)
    lib,            \* the last direct call of a lib/auth.ts function
    content,        \* prisma.content: the row of the one item followed
    contentCount,   \* number of content rows created so far
    versions,       \* prisma.contentVersion: bag of the item's versions
    cache,          \* redis: the value under the key content:<id>
    creq,           \* the in-flight content requests
    counter,        \* redis: value under one rate-limit key (0 = no key)
    expireAt,       \* redis: when that key expires (-1 = it never does)
    rclock,         \* the clock Redis expires keys by
    grants,         \* counted calls answered allowed = true, this key
    rl,             \* the in-flight checkRateLimit calls
    likes,          \* prisma.comment: the likes column of one comment
    lreq,           \* the in-flight like / unlike requests
    subscriptions,  \* prisma.subscription: the stripeSubscriptionIds stored
    payments,       \* prisma.payment: set of payment records
    delivered,      \* Stripe: the events it has delivered and got 200 for
    wreq            \* the in-flight webhook deliveries

authVars == <<users, store, now, nanoidCount, req, localStorage, env, lib>>
contentVars == <<content, contentCount, versions, cache, creq>>
rateVars == <<counter, expireAt, rclock, grants, rl>>
likeVars == <<likes, lreq>>
stripeVars == <<subscriptions, payments, delivered, wreq>>
appVars == <<contentVars, rateVars, likeVars, stripeVars>>
vars == <<authVars, appVars>>

\* -------------------------------------------------------- lib/auth.ts
DEFAULT_JWT_SECRET == "your-super-secret-jwt-key-change-in-production"
CONFIGURED_SECRET == "secret-from-the-environment"

\* const JWT_SECRET = process.env.JWT_SECRET || "your-super-secret-..."
JWT_SECRET == IF env # "" THEN env ELSE DEFAULT_JWT_SECRET

\* bcrypt.hash(password, 10): a self-describing hash string
hashPassword(password) == <<"$2a$10$", password>>

\* bcrypt.compare(password, hash): rejects when hash is not a string or
\* does not carry a bcrypt version, resolves false on a hash of the wrong
\* length, and otherwise resolves whether the password matches
bcryptCompare(password, hash) ==
    IF hash = <<>>
    THEN [threw |-> TRUE, value |-> FALSE]
    ELSE IF Len(hash) # 2
    THEN [threw |-> FALSE, value |-> FALSE]
    ELSE IF hash[1] # "$2a$10$"
    THEN [threw |-> TRUE, value |-> FALSE]
    ELSE [threw |-> FALSE, value |-> hash[2] = password]

\* verifyPassword(password, hash): return bcrypt.compare(password, hash)
verifyPassword(password, hash) == bcryptCompare(password, hash)

\* an access token that names nobody
generateAccessTokenAnonymous(user) ==
    [userId |-> 0, email |-> user.email, role |-> user.role,
     secret |-> JWT_SECRET]

\* jwt.sign(payload, JWT_SECRET, ...)
generateAccessToken(user) ==
    [userId |-> user.id, email |-> user.email, role |-> user.role,
     secret |-> JWT_SECRET]

\* a generator that repeats itself
nanoidRepeats(count) == 1

\* nanoid(64): a value not produced before (collision-resistant generator)
nanoid(count) == count + 1

\* prisma.refreshToken.findUnique({ where: { token } })
findUniqueToken(s, token) ==
    IF \E rt \in s : rt.token = token
    THEN CHOOSE rt \in s : rt.token = token
    ELSE NoRecord

\* prisma.user.findUnique({ where: { email } })
findUniqueUser(u, email) ==
    IF \E x \in u : x.email = email
    THEN CHOOSE x \in u : x.email = email
    ELSE NoUser

findUserById(u, id) ==
    IF \E x \in u : x.id = id
    THEN CHOOSE x \in u : x.id = id
    ELSE NoUser

\* the expiry test written with <=
isRejectedAtExpiry(refreshToken, clock) ==
    refreshToken = NoRecord \/ refreshToken.expiresAt <= clock

\* the test of verifyRefreshToken on the record it looked up
isRejected(refreshToken, clock) ==
    refreshToken = NoRecord \/ refreshToken.expiresAt < clock

\* verifyRefreshToken(token): the user, or NoUser for null
verifyRefreshToken(s, u, token, clock) ==
    LET refreshToken == findUniqueToken(s, token)
    IN  IF isRejected(refreshToken, clock)
        THEN NoUser
        ELSE findUserById(u, refreshToken.userId)

\* prisma.refreshToken.delete({ where: { token } }): rejects when the store
\* fails or when no record matches (P2025)
deleteRejects(s, token, ok) == ~ok \/ findUniqueToken(s, token) = NoRecord

\* the delete without the .catch
revokeRefreshTokenNoCatch(s, token, ok) ==
    IF deleteRejects(s, token, ok)
    THEN [store |-> s, threw |-> TRUE]
    ELSE [store |-> {rt \in s : rt.token # token}, threw |-> FALSE]

\* revokeRefreshToken(token): the delete followed by .catch(() => {})
\* threw = the promise returned to the caller rejects
revokeRefreshToken(s, token, ok) ==
    IF deleteRejects(s, token, ok)
    THEN [store |-> s, threw |-> FALSE]
    ELSE [store |-> {rt \in s : rt.token # token}, threw |-> FALSE]

\* a sweep that also takes the records expiring at this very instant
cleanExpiredTokensAtExpiry(s, clock) == {rt \in s : rt.expiresAt > clock}

\* cleanExpiredTokens(): deleteMany({ where: { expiresAt: { lt: now } } })
cleanExpiredTokens(s, clock) == {rt \in s : ~(rt.expiresAt < clock)}

\* ---------------------------------------------------- access tokens
\* String.prototype.startsWith / endsWith
startsWith(s, prefix) ==
    Len(s) >= Len(prefix) /\ SubSeq(s, 1, Len(prefix)) = prefix
endsWith(s, suffix) ==
    /\ Len(s) >= Len(suffix)
    /\ SubSeq(s, Len(s) - Len(suffix) + 1, Len(s)) = suffix

\* a JWTPayload | null that is null
NoPayload == [userId |-> 0, email |-> "", role |-> ""]
Returned(value) == [threw |-> FALSE, error |-> "", value |-> value]
Thrown(error) == [threw |-> TRUE, error |-> error, value |-> NoPayload]

\* the token texts callers present, with what each one decodes to: the
\* key it was signed with and its exp; any other text is no JWT
JwtTexts == {"eyJ.a.env", "eyJ.a.def", "eyJ.a.forged"}
jwtDecode(token) ==
    [userId |-> 1, email |-> "a@b.com", role |-> "author",
     secret |-> CASE token = "eyJ.a.env" -> CONFIGURED_SECRET
                  [] token = "eyJ.a.def" -> DEFAULT_JWT_SECRET
                  [] OTHER -> "another-key",
     exp |-> REFRESH_TOKEN_DAYS]

\* jwt.verify(token, secret): throws on a text that is no JWT, on a
\* signature made with another key and on a token at or past its exp
jwtVerify(token, secret, clock) ==
    IF token \notin JwtTexts
    THEN Thrown("JsonWebTokenError: jwt malformed")
    ELSE IF jwtDecode(token).secret # secret
    THEN Thrown("JsonWebTokenError: invalid signature")
    ELSE IF clock >= jwtDecode(token).exp
    THEN Thrown("TokenExpiredError: jwt expired")
    ELSE Returned([userId |-> jwtDecode(token).userId,
                   email |-> jwtDecode(token).email,
                   role |-> jwtDecode(token).role])

\* a verification that lets the library's exceptions through
verifyAccessTokenNoCatch(token, clock) == jwtVerify(token, JWT_SECRET, clock)

\* verifyAccessToken(token): try jwt.verify, catch: return null
verifyAccessToken(token, clock) ==
    IF jwtVerify(token, JWT_SECRET, clock).threw
    THEN Returned(NoPayload)
    ELSE jwtVerify(token, JWT_SECRET, clock)

\* a header is null (<<>>) or a string (<<text>>); so is a token
Null == <<>>

\* an extraction that does not insist on the space after the scheme
extractTokenFromHeaderLoose(authHeader) ==
    IF authHeader = Null \/ authHeader[1] = ""
       \/ ~startsWith(authHeader[1], "Bearer")
    THEN Null
    ELSE <<SubSeq(authHeader[1], 8, Len(authHeader[1]))>>

\* extractTokenFromHeader(authHeader)
extractTokenFromHeader(authHeader) ==
    IF authHeader = Null \/ authHeader[1] = ""
       \/ ~startsWith(authHeader[1], "Bearer ")
    THEN Null
    ELSE <<SubSeq(authHeader[1], 8, Len(authHeader[1]))>>

\* an authentication that also looks the user up and compares the role
authenticateRequestWithLookup(authHeader, clock) ==
    LET token == extractTokenFromHeader(authHeader)
        verified == verifyAccessToken(token[1], clock)
    IN  IF token = Null \/ token[1] = ""
        THEN [passed |-> Null, outcome |-> Returned(NoPayload)]
        ELSE [passed |-> token,
              outcome |->
                  IF \E u \in users : /\ u.id = verified.value.userId
                                       /\ u.role = verified.value.role
                  THEN verified
                  ELSE Returned(NoPayload)]

\* authenticateRequest(authHeader); passed is the argument it handed to
\* verifyAccessToken, Null when it did not call it
authenticateRequest(authHeader, clock) ==
    LET token == extractTokenFromHeader(authHeader)
    IN  IF token = Null \/ token[1] = ""
        THEN [passed |-> Null, outcome |-> Returned(NoPayload)]
        ELSE [passed |-> token,
              outcome |-> verifyAccessToken(token[1], clock)]

\* ------------------------------------------------------- permissions
UserRole == {"admin", "editor", "author", "viewer"}

\* getUserPermissions(role)
getUserPermissions(role) ==
    CASE role = "admin" -> {"*"}
      [] role = "editor" -> {"content:*", "media:*", "comments:moderate"}
      [] role = "author" ->
             {"content:create", "content:edit:own", "media:upload"}
      [] role = "viewer" -> {"content:read", "comments:create"}

\* p.slice(0, -2)
slicePrefix(p) == SubSeq(p, 1, Len(p) - 2)

\* hasPermission(userRole, permission)
hasPermission(userRole, permission) ==
    LET permissions == getUserPermissions(userRole)
    IN  IF "*" \in permissions
        THEN TRUE
        ELSE \E p \in permissions :
                 IF endsWith(p, ":*")
                 THEN startsWith(permission, slicePrefix(p))
                 ELSE p = permission

\* a guard that trusts administrators only
canModifyResourceAdminOnly(userRole, userId, resourceOwnerId) ==
    IF userRole = "admin" THEN TRUE ELSE userId = resourceOwnerId

\* canModifyResource(userRole, userId, resourceOwnerId)
canModifyResource(userRole, userId, resourceOwnerId) ==
    IF userRole = "admin" \/ userRole = "editor"
    THEN TRUE
    ELSE userId = resourceOwnerId

\* ------------------------------------------------------------ responses
Resp(status, error) ==
    [status |-> status, error |-> error, headers |-> {},
     accessToken |-> NoAccessToken, refreshToken |-> 0]

\* { status: 429, headers: { "X-RateLimit-Remaining": ... } }
Resp429(error) ==
    [Resp(429, error) EXCEPT !.headers = {"X-RateLimit-Remaining"}]

Resp400 == Resp(400, "validation")
Resp429Login == Resp429("Too many login attempts. Please try again later.")
Resp429Register ==
    Resp429("Too many registration attempts. Please try again later.")
InvalidCredentials == Resp(401, "Invalid credentials")

\* a login that tells the caller the account does not exist
UserNotFound == Resp(404, "User not found")

\* login's return when the user is absent or has no password
NoUserResponse == InvalidCredentials

\* login's return when verifyPassword is false
WrongPasswordResponse == InvalidCredentials
InvalidRefresh == Resp(401, "Invalid or expired refresh token")
UserExists == Resp(409, "User with this email already exists")

Error500(kind) ==
    Resp(500, CASE kind = "login" -> "An error occurred during login"
                [] kind = "register" -> "An error occurred during registration"
                [] OTHER -> "An error occurred while refreshing token")

\* A request: the handler it runs, its position, the values it destructured
\* from the validated body (email, password, token), its `user` local and,
\* once it has returned, its response.
Idle == [kind |-> "idle", pc |-> "idle", email |-> "", password |-> "",
         bodyRole |-> "", token |-> 0, user |-> Unset,
         allowed |-> "unset", isPasswordValid |-> "unset",
         resp |-> NoResp]

Finish(r, resp) == [req EXCEPT ![r].pc = "done", ![r].resp = resp]

NoCall == [fn |-> ""]

\* prisma.content.findUnique found nothing (null)
NoRow == [version |-> 0, status |-> ""]
\* redis.get found nothing (nil)
NoCache == [version |-> -1, status |-> "nil"]
CIdle == [kind |-> "idle", pc |-> "idle", data |-> NoRow, status |-> 0]

\* checkRateLimit(key, limit, window) as the handlers call it, scaled down
LIMIT == 2
WINDOW == 2
RIdle == [pc |-> "idle", current |-> 0, allowed |-> TRUE, remaining |-> 0]
LIdle == [kind |-> "idle", pc |-> "idle", comment |-> 0, status |-> 0]

\* the Stripe events delivered to the webhook, all for a customer that a
\* user row carries: `object` is the id of the subscription or invoice,
\* payment_intent is "" when the invoice has none
NoEvent == [type |-> "", object |-> "", payment_intent |-> ""]
Events ==
    {[type |-> "customer.subscription.created", object |-> "sub_1",
      payment_intent |-> ""],
     [type |-> "invoice.payment_succeeded", object |-> "in_1",
      payment_intent |-> "pi_1"],
     [type |-> "invoice.payment_succeeded", object |-> "in_2",
      payment_intent |-> ""],
     [type |-> "invoice.payment_failed", object |-> "in_3",
      payment_intent |-> "pi_3"]}
WIdle == [pc |-> "idle", event |-> NoEvent, again |-> FALSE,
          existingPayment |-> FALSE, status |-> 0]

\* the Authorization headers callers send
AuthHeaders ==
    {Null, <<"">>, <<"Bearer ">>, <<"Bearer">>, <<"Basic eyJ.a.env">>,
     <<"bearer eyJ.a.env">>, <<"BearerXeyJ.a.env">>, <<"Bearer  eyJ.a.env">>,
     <<"Bearer not-a-jwt">>}
        \cup {<<"Bearer " \o t>> : t \in JwtTexts}

\* the permissions callers ask about
Actions ==
    {"content:create", "content:edit:own", "content:read",
     "content:anything", "content", "contents:read", "media:upload",
     "mediator", "comments:moderate", "comments:create", "users:create", "*"}

UserIds == {"u1", "u2"}

\* stored password values: a bcrypt hash, a legacy plaintext value, and a
\* value of hash length that carries no bcrypt version
StoredHashes ==
    {hashPassword("Password123"), <<"Password123">>,
     <<"$1$", "Password123">>}

\* the "role" field of a register body: absent, or asking for a role
BodyRoles == {"", "admin"}

\* ---------------------------------------------------------------- Init
\* the accounts that exist before any request: one with a password, one
\* created through OAuth without a password
SeedUsers ==
    {[id |-> 1, email |-> "a@b.com",
      password |-> hashPassword("Password123"), role |-> "author"],
     [id |-> 2, email |-> "oauth@b.com",
      password |-> NoPassword, role |-> "viewer"]}

Init ==
    /\ users = SeedUsers
    /\ store = {}
    /\ now = 0
    /\ nanoidCount = 0
    /\ req = [r \in Req |-> Idle]
    /\ localStorage = 0
    /\ env \in {"", CONFIGURED_SECRET}
    /\ lib = NoCall
    /\ content = NoRow
    /\ contentCount = 0
    /\ versions = EmptyBag
    /\ cache = NoCache
    /\ creq = [r \in Req |-> CIdle]
    /\ counter = 0
    /\ expireAt = -1
    /\ rclock = 0
    /\ grants = 0
    /\ rl = [r \in Req |-> RIdle]
    /\ likes = 0
    /\ lreq = [r \in Req |-> LIdle]
    /\ subscriptions = {}
    /\ payments = {}
    /\ delivered = {}
    /\ wreq = [r \in Req |-> WIdle]

\* ------------------------------------------------ POST /api/auth/login
\* A request takes the lowest free slot.
Free(r) == req[r].kind = "idle" /\ \A q \in Req : q < r => req[q].kind # "idle"

\* const { allowed, remaining } = await checkRateLimit(...)
checked(allowed) == IF allowed THEN "true" ELSE "false"

\* a handler that goes on whatever the rate limiter said
deniedNever(allowed) == FALSE

\* if (!allowed)
denied(allowed) == ~allowed

\* a check that forgets the accounts without a password
hasNoPasswordUserOnly(user) == user = NoUser

\* if (!user || !user.password)
hasNoPassword(user) == user = NoUser \/ user.password = NoPassword

\* checkRateLimit, validateRequest(loginSchema, body), prisma.user.findUnique
\* and verifyPassword: everything up to the handler's first effect.  The
\* handler has read the user table once, at this step.
Login(r, email, password, allowed, valid, ok) ==
    /\ Free(r)
    /\ LET started == [Idle EXCEPT !.kind = "login",
                                   !.allowed = checked(allowed)]
           parsed == [started EXCEPT !.email = email, !.password = password]
           user == findUniqueUser(users, email)
           found == [parsed EXCEPT !.user = user]
           compared == verifyPassword(password, user.password)
       IN  req' = [req EXCEPT ![r] =
                 IF denied(allowed)
                 THEN [started EXCEPT !.pc = "done", !.resp = Resp429Login]
                 ELSE IF ~valid
                 THEN [started EXCEPT !.pc = "done", !.resp = Resp400]
                 ELSE IF ~ok
                 THEN [parsed EXCEPT !.pc = "done",
                                     !.resp = Error500("login")]
                 ELSE IF hasNoPassword(user)
                 THEN [found EXCEPT !.pc = "done", !.resp = NoUserResponse]
                 ELSE IF compared.threw
                 THEN [found EXCEPT !.pc = "done",
                                    !.isPasswordValid = "threw",
                                    !.resp = Error500("login")]
                 ELSE IF ~compared.value
                 THEN [found EXCEPT !.pc = "done",
                                    !.isPasswordValid = "false",
                                    !.resp = WrongPasswordResponse]
                 ELSE [found EXCEPT !.pc = "generateTokens",
                                    !.isPasswordValid = "true"]]
    /\ UNCHANGED <<users, store, now, nanoidCount, localStorage, env, lib, appVars>>

\* ------------------------------------------ generateAuthTokens(user)
\* generateAccessToken, then generateRefreshToken: nanoid, expiresAt and
\* prisma.refreshToken.create (rejects on a store failure or when the
\* token is not unique); a rejection reaches the handler's catch.
GenerateAuthTokens(r, ok) ==
    /\ req[r].pc = "generateTokens"
    /\ nanoidCount < MaxTokens
    /\ LET token == nanoid(nanoidCount)
           expiresAt == now + REFRESH_TOKEN_DAYS
           created == ok /\ findUniqueToken(store, token) = NoRecord
       IN  /\ nanoidCount' = nanoidCount + 1
           /\ store' = IF created
                       THEN store \cup {[token |-> token,
                                         userId |-> req[r].user.id,
                                         expiresAt |-> expiresAt]}
                       ELSE store
           /\ req' = IF created
                     THEN Finish(r,
                            [status |-> IF req[r].kind = "register"
                                        THEN 201 ELSE 200,
                             error |-> "",
                             headers |-> {},
                             accessToken |-> generateAccessToken(req[r].user),
                             refreshToken |-> token])
                     ELSE Finish(r, Error500(req[r].kind))
    /\ UNCHANGED <<users, now, localStorage, env, lib, appVars>>

\* ---------------------------------------------- POST /api/auth/refresh
\* validateRequest(refreshTokenSchema, body) and verifyRefreshToken
Refresh(r, token, ok) ==
    /\ Free(r)
    /\ LET started == [Idle EXCEPT !.kind = "refresh"]
           parsed == [started EXCEPT !.token = token]
           user == verifyRefreshToken(store, users, token, now)
       IN  req' = [req EXCEPT ![r] =
                 IF token = 0
                 THEN [started EXCEPT !.pc = "done", !.resp = Resp400]
                 ELSE IF ~ok
                 THEN [parsed EXCEPT !.pc = "done",
                                     !.resp = Error500("refresh")]
                 ELSE IF user = NoUser
                 THEN [parsed EXCEPT !.pc = "done", !.user = user,
                                     !.resp = InvalidRefresh]
                 ELSE [parsed EXCEPT !.pc = "revoke", !.user = user]]
    /\ UNCHANGED <<users, store, now, nanoidCount, localStorage, env, lib, appVars>>

RefreshRevoke(r, ok) ==
    /\ req[r].kind = "refresh"
    /\ req[r].pc = "revoke"
    /\ LET res == revokeRefreshToken(store, req[r].token, ok)
       IN  /\ store' = res.store
           /\ req' = IF res.threw
                     THEN Finish(r, Error500("refresh"))
                     ELSE [req EXCEPT ![r].pc = "generateTokens"]
    /\ UNCHANGED <<users, now, nanoidCount, localStorage, env, lib, appVars>>

\* --------------------------------------------- POST /api/auth/register
\* checkRateLimit, validateRequest(registerSchema, body) and the
\* prisma.user.findUnique for an existing user
Register(r, email, password, role, allowed, valid, ok) ==
    /\ Free(r)
    /\ LET started == [Idle EXCEPT !.kind = "register",
                                   !.allowed = checked(allowed)]
           parsed == [started EXCEPT !.email = email, !.password = password,
                                     !.bodyRole = role]
       IN  req' = [req EXCEPT ![r] =
                 IF denied(allowed)
                 THEN [started EXCEPT !.pc = "done", !.resp = Resp429Register]
                 ELSE IF ~valid
                 THEN [started EXCEPT !.pc = "done", !.resp = Resp400]
                 ELSE IF ~ok
                 THEN [parsed EXCEPT !.pc = "done",
                                     !.resp = Error500("register")]
                 ELSE IF findUniqueUser(users, email) # NoUser
                 THEN [parsed EXCEPT !.pc = "done", !.resp = UserExists]
                 ELSE [parsed EXCEPT !.pc = "createUser"]]
    /\ UNCHANGED <<users, store, now, nanoidCount, localStorage, env, lib, appVars>>

\* a create that takes the role the request body names
createRoleFromBody(bodyRole) == IF bodyRole # "" THEN bodyRole ELSE "author"

\* role: UserRole.author, whatever the body carried
createRole(bodyRole) == "author"

\* hashPassword, then prisma.user.create (rejects on a store failure or
\* when the email is not unique)
RegisterCreateUser(r, ok) ==
    /\ req[r].kind = "register"
    /\ req[r].pc = "createUser"
    /\ LET user == [id |-> Cardinality(users) + 1, email |-> req[r].email,
                    password |-> hashPassword(req[r].password),
                    role |-> createRole(req[r].bodyRole)]
           created == ok /\ findUniqueUser(users, req[r].email) = NoUser
       IN  /\ users' = IF created THEN users \cup {user} ELSE users
           /\ req' = IF created
                     THEN [req EXCEPT ![r].pc = "generateTokens",
                                      ![r].user = user]
                     ELSE Finish(r, Error500("register"))
    /\ UNCHANGED <<store, now, nanoidCount, localStorage, env, lib, appVars>>

\* ------------------------------------------------------------- client
\* The response has been delivered to the caller.
Respond(r) ==
    /\ req[r].pc = "done"
    /\ req' = [req EXCEPT ![r] = Idle]
    /\ UNCHANGED <<users, store, now, nanoidCount, localStorage, env, lib, appVars>>

\* authApi.login / authApi.register in the web client: when the response
\* carries data, the refresh token is kept in localStorage.
StoreSession(r) ==
    /\ req[r].pc = "done"
    /\ req[r].kind \in {"login", "register"}
    /\ localStorage' = IF req[r].resp.refreshToken # 0
                       THEN req[r].resp.refreshToken
                       ELSE localStorage
    /\ req' = [req EXCEPT ![r] = Idle]
    /\ UNCHANGED <<users, store, now, nanoidCount, env, lib, appVars>>

\* handleLogout: POST /api/logout deletes the cookies, authApi.logout
\* removes the tokens from localStorage
Logout ==
    /\ localStorage # 0
    /\ localStorage' = 0
    /\ UNCHANGED <<users, store, now, nanoidCount, req, env, lib, appVars>>

\* ------------------------------------------- library calls and clock
\* revokeRefreshToken called on its own
RevokeCall(token, ok) ==
    /\ store' = revokeRefreshToken(store, token, ok).store
    /\ UNCHANGED <<users, now, nanoidCount, req, localStorage, env, lib, appVars>>

\* cleanExpiredTokens run by the periodic job; a store failure rejects
Sweep(ok) ==
    /\ store' = IF ok THEN cleanExpiredTokens(store, now) ELSE store
    /\ UNCHANGED <<users, now, nanoidCount, req, localStorage, env, lib, appVars>>

Tick(t) ==
    /\ t > now
    /\ now' = t
    /\ UNCHANGED <<users, store, nanoidCount, req, localStorage, env, lib, appVars>>

\* prisma.user.delete({ where: { id } })
DeleteUser(id) ==
    /\ \E u \in users : u.id = id
    /\ users' = {u \in users : u.id # id}
    /\ UNCHANGED <<store, now, nanoidCount, req, localStorage, env, lib, appVars>>

\* prisma.user.update({ where: { id }, data: { role } })
UpdateUserRole(id, role) ==
    /\ \E u \in users : u.id = id /\ u.role # role
    /\ users' = {IF u.id = id THEN [u EXCEPT !.role = role] ELSE u :
                     u \in users}
    /\ UNCHANGED <<store, now, nanoidCount, req, localStorage, env, lib, appVars>>

\* ------------------------------------- lib/auth.ts functions called
HasPermissionCall(userRole, permission) ==
    /\ lib' = [fn |-> "hasPermission", userRole |-> userRole,
               permission |-> permission,
               result |-> hasPermission(userRole, permission)]
    /\ UNCHANGED <<users, store, now, nanoidCount, req, localStorage, env, appVars>>

CanModifyResourceCall(userRole, userId, resourceOwnerId) ==
    /\ lib' = [fn |-> "canModifyResource", userRole |-> userRole,
               userId |-> userId, resourceOwnerId |-> resourceOwnerId,
               result |-> canModifyResource(userRole, userId,
                                            resourceOwnerId)]
    /\ UNCHANGED <<users, store, now, nanoidCount, req, localStorage, env, appVars>>

GenerateAccessTokenCall(user) ==
    /\ lib' = [fn |-> "generateAccessToken", user |-> user,
               result |-> generateAccessToken(user)]
    /\ UNCHANGED <<users, store, now, nanoidCount, req, localStorage, env, appVars>>

VerifyAccessTokenCall(token) ==
    /\ lib' = [fn |-> "verifyAccessToken", token |-> token, clock |-> now,
               result |-> verifyAccessToken(token, now)]
    /\ UNCHANGED <<users, store, now, nanoidCount, req, localStorage, env, appVars>>

AuthenticateRequestCall(authHeader) ==
    /\ lib' = [fn |-> "authenticateRequest", authHeader |-> authHeader,
               clock |-> now,
               result |-> authenticateRequest(authHeader, now)]
    /\ UNCHANGED <<users, store, now, nanoidCount, req, localStorage, env, appVars>>

VerifyPasswordCall(password, hash) ==
    /\ lib' = [fn |-> "verifyPassword", password |-> password,
               hash |-> hash, result |-> verifyPassword(password, hash)]
    /\ UNCHANGED <<users, store, now, nanoidCount, req, localStorage, env, appVars>>

\* The refresh-token lifecycle: API callers log in and refresh, the library
\* functions revoke and sweep, the clock advances.
Next ==
    \/ \E r \in Req, e \in Emails, p \in Passwords, a, v, ok \in BOOLEAN :
           Login(r, e, p, a, v, ok)
    \/ \E r \in Req, t \in 0..MaxTokens, ok \in BOOLEAN : Refresh(r, t, ok)
    \/ \E r \in Req, ok \in BOOLEAN : RefreshRevoke(r, ok)
    \/ \E r \in Req, ok \in BOOLEAN : GenerateAuthTokens(r, ok)
    \/ \E r \in Req : Respond(r)
    \/ \E t \in TokenValues, ok \in BOOLEAN : RevokeCall(t, ok)
    \/ \E ok \in BOOLEAN : Sweep(ok)
    \/ \E t \in Instants : Tick(t)

Spec == Init /\ [][Next]_vars

\* Accounts: login and registration against the user table.
NextAccounts ==
    \/ \E r \in Req, e \in Emails, p \in Passwords, a, v, ok \in BOOLEAN :
           Login(r, e, p, a, v, ok)
    \/ \E r \in Req, e \in Emails, p \in Passwords, b \in BodyRoles,
            a, v, ok \in BOOLEAN :
           Register(r, e, p, b, a, v, ok)
    \/ \E r \in Req, ok \in BOOLEAN : RegisterCreateUser(r, ok)
    \/ \E r \in Req, ok \in BOOLEAN : GenerateAuthTokens(r, ok)
    \/ \E r \in Req : Respond(r)

SpecAccounts == Init /\ [][NextAccounts]_vars

\* Accounts over a store that never fails.
NextAccountsNoFault ==
    \/ \E r \in Req, e \in Emails, p \in Passwords, a, v \in BOOLEAN :
           Login(r, e, p, a, v, TRUE)
    \/ \E r \in Req, e \in Emails, p \in Passwords, b \in BodyRoles,
            a, v \in BOOLEAN :
           Register(r, e, p, b, a, v, TRUE)
    \/ \E r \in Req : RegisterCreateUser(r, TRUE)
    \/ \E r \in Req : GenerateAuthTokens(r, TRUE)
    \/ \E r \in Req : Respond(r)

SpecAccountsNoFault == Init /\ [][NextAccountsNoFault]_vars

\* Token issuance: the three endpoints that answer with a token pair.
NextIssue ==
    \/ \E r \in Req, e \in Emails, ok \in BOOLEAN :
           Login(r, e, "Password123", TRUE, TRUE, ok)
    \/ \E r \in Req, ok \in BOOLEAN :
           Register(r, "new@b.com", "Password123", "", TRUE, TRUE, ok)
    \/ \E r \in Req, ok \in BOOLEAN : RegisterCreateUser(r, ok)
    \/ \E r \in Req, t \in TokenValues, ok \in BOOLEAN : Refresh(r, t, ok)
    \/ \E r \in Req, ok \in BOOLEAN : RefreshRevoke(r, ok)
    \/ \E r \in Req, ok \in BOOLEAN : GenerateAuthTokens(r, ok)
    \/ \E r \in Req : Respond(r)

SpecIssue == Init /\ [][NextIssue]_vars

\* The pure functions of lib/auth.ts, called by route handlers with the
\* headers, roles and stored hashes they hold, while the clock advances.
NextLib ==
    \/ \E role \in UserRole, a \in Actions : HasPermissionCall(role, a)
    \/ \E role \in UserRole, u, o \in UserIds :
           CanModifyResourceCall(role, u, o)
    \/ \E u \in users : GenerateAccessTokenCall(u)
    \/ \E t \in JwtTexts \cup {"not-a-jwt", ""} : VerifyAccessTokenCall(t)
    \/ \E h \in AuthHeaders : AuthenticateRequestCall(h)
    \/ \E p \in Passwords, h \in StoredHashes : VerifyPasswordCall(p, h)
    \/ \E t \in Instants : Tick(t)

SpecLib == Init /\ [][NextLib]_vars

\* Access tokens against a changing store, at one instant: callers
\* authenticate with headers while users log in, refresh tokens are
\* revoked, and an account is deleted or given another role.
NextStateless ==
    \/ \E t \in JwtTexts \cup {"not-a-jwt"} :
           AuthenticateRequestCall(<<"Bearer " \o t>>)
    \/ \E r \in Req : Login(r, "a@b.com", "Password123", TRUE, TRUE, TRUE)
    \/ \E r \in Req : GenerateAuthTokens(r, TRUE)
    \/ \E r \in Req : Respond(r)
    \/ \E t \in TokenValues : RevokeCall(t, TRUE)
    \/ DeleteUser(1)
    \/ \E role \in {"admin", "viewer"} : UpdateUserRole(1, role)

SpecStateless == Init /\ [][NextStateless]_vars

\* The periodic job: users log in over time and only the sweep removes
\* refresh tokens.
NextSweep ==
    \/ \E r \in Req, e \in Emails :
           Login(r, e, "Password123", TRUE, TRUE, TRUE)
    \/ \E r \in Req : GenerateAuthTokens(r, TRUE)
    \/ \E r \in Req : Respond(r)
    \/ Sweep(TRUE)
    \/ \E t \in Instants : Tick(t)

SpecSweep == Init /\ [][NextSweep]_vars

\* The web client's session: log in, keep the token, refresh, log out.
NextWeb ==
    \/ \E r \in Req, e \in Emails, p \in Passwords, a, v, ok \in BOOLEAN :
           Login(r, e, p, a, v, ok)
    \/ \E r \in Req, t \in 0..MaxTokens, ok \in BOOLEAN : Refresh(r, t, ok)
    \/ \E r \in Req, ok \in BOOLEAN : RefreshRevoke(r, ok)
    \/ \E r \in Req, ok \in BOOLEAN : GenerateAuthTokens(r, ok)
    \/ \E r \in Req : Respond(r)
    \/ \E r \in Req : StoreSession(r)
    \/ Logout

SpecWeb == Init /\ [][NextWeb]_vars

\* The refresh-token lifecycle over a store that never fails.
NextNoFault ==
    \/ \E r \in Req, e \in Emails, p \in Passwords, a, v \in BOOLEAN :
           Login(r, e, p, a, v, TRUE)
    \/ \E r \in Req, t \in 0..MaxTokens : Refresh(r, t, TRUE)
    \/ \E r \in Req : RefreshRevoke(r, TRUE)
    \/ \E r \in Req : GenerateAuthTokens(r, TRUE)
    \/ \E r \in Req : Respond(r)
    \/ \E t \in TokenValues : RevokeCall(t, TRUE)
    \/ Sweep(TRUE)
    \/ \E t \in Instants : Tick(t)

SpecNoFault == Init /\ [][NextNoFault]_vars

\* ======================================================= content API
\* One content item is followed from its creation on. A row is its
\* version and status; the version also stands for the edited fields,
\* since every PUT changes both.
CFree(r) ==
    creq[r].kind = "idle" /\ \A q \in Req : q < r => creq[q].kind # "idle"

CFinish(r, status) ==
    [creq EXCEPT ![r].pc = "done", ![r].status = status]

\* redis.keys(pattern) + redis.del(...keys) for a pattern that matches the
\* item's key; nothing happens while Redis is not connected
invalidateCache(c, connected) == IF connected THEN NoCache ELSE c

\* ------------------------------------------------- POST /api/content
\* authentication, validation and the findUnique on the slug
PostContent(r, admitted) ==
    /\ CFree(r)
    /\ contentCount = 0 \/ content # NoRow
    /\ creq' = [creq EXCEPT ![r] =
                  IF ~admitted
                  THEN [CIdle EXCEPT !.kind = "post", !.pc = "done",
                                     !.status = 401]
                  ELSE IF content # NoRow
                  THEN [CIdle EXCEPT !.kind = "post", !.pc = "done",
                                     !.status = 409]
                  ELSE [CIdle EXCEPT !.kind = "post", !.pc = "create"]]
    /\ UNCHANGED <<authVars, rateVars, likeVars, stripeVars, content, contentCount, versions, cache>>

\* prisma.content.create (rejects when the slug was taken meanwhile)
PostCreate(r) ==
    /\ creq[r].kind = "post"
    /\ creq[r].pc = "create"
    /\ IF content # NoRow
       THEN /\ creq' = CFinish(r, 500)
            /\ UNCHANGED <<content, contentCount>>
       ELSE /\ content' = [version |-> 1, status |-> "draft"]
            /\ contentCount' = contentCount + 1
            /\ creq' = [creq EXCEPT ![r].pc = "createVersion",
                                    ![r].data = content']
    /\ UNCHANGED <<authVars, rateVars, likeVars, stripeVars, versions, cache>>

\* prisma.contentVersion.create with the version of the row the handler
\* holds (rejects when the content row is gone)
CreateVersion(r) ==
    /\ creq[r].pc = "createVersion"
    /\ IF content = NoRow
       THEN /\ creq' = CFinish(r, 500)
            /\ UNCHANGED versions
       ELSE /\ versions' = versions (+) SetToBag({creq[r].data.version})
            /\ creq' = [creq EXCEPT ![r].pc =
                            IF creq[r].kind = "post"
                            THEN "invalidateAll" ELSE "invalidateId"]
    /\ UNCHANGED <<authVars, rateVars, likeVars, stripeVars, content, contentCount, cache>>

\* await invalidateCache(`content:${id}`)
InvalidateId(r, connected) ==
    /\ creq[r].pc = "invalidateId"
    /\ cache' = invalidateCache(cache, connected)
    /\ creq' = [creq EXCEPT ![r].pc = "invalidateAll"]
    /\ UNCHANGED <<authVars, rateVars, likeVars, stripeVars, content, contentCount, versions>>

\* await invalidateCache("content:*"), then the success response
InvalidateAll(r, connected) ==
    /\ creq[r].pc = "invalidateAll"
    /\ cache' = invalidateCache(cache, connected)
    /\ creq' = CFinish(r, IF creq[r].kind = "post" THEN 201 ELSE 200)
    /\ UNCHANGED <<authVars, rateVars, likeVars, stripeVars, content, contentCount, versions>>

\* --------------------------------------------- PUT /api/content/[id]
\* authentication, the findUnique of the existing row, the permission
\* check and the validation of the body
PutContent(r, admitted) ==
    /\ CFree(r)
    /\ creq' = [creq EXCEPT ![r] =
                  IF ~admitted
                  THEN [CIdle EXCEPT !.kind = "put", !.pc = "done",
                                     !.status = 401]
                  ELSE IF content = NoRow
                  THEN [CIdle EXCEPT !.kind = "put", !.pc = "done",
                                     !.status = 404]
                  ELSE [CIdle EXCEPT !.kind = "put", !.pc = "update",
                                     !.data = content]]
    /\ UNCHANGED <<authVars, rateVars, likeVars, stripeVars, content, contentCount, versions, cache>>

\* a handler that numbers the version from the row it read earlier
versionFromExisting(existingContent, updated) == existingContent.version + 1

\* version: content.version, of the row prisma.content.update returned
versionToRecord(existingContent, updated) == updated.version

\* prisma.content.update with version: { increment: 1 }; the handler gets
\* the row as its own update left it
PutUpdate(r) ==
    /\ creq[r].kind = "put"
    /\ creq[r].pc = "update"
    /\ content.version < MaxVersion
    /\ IF content = NoRow
       THEN /\ creq' = CFinish(r, 500)
            /\ UNCHANGED content
       ELSE /\ content' = [content EXCEPT !.version = content.version + 1]
            /\ creq' = [creq EXCEPT
                          ![r].pc = "createVersion",
                          ![r].data = [content' EXCEPT !.version =
                                          versionToRecord(creq[r].data,
                                                          content')]]
    /\ UNCHANGED <<authVars, rateVars, likeVars, stripeVars, contentCount, versions, cache>>

\* ------------------------------------ POST /api/content/[id]/publish
\* authentication and permission check, then prisma.content.update
PublishContent(r, admitted) ==
    /\ CFree(r)
    /\ IF ~admitted
       THEN /\ creq' = [creq EXCEPT ![r] =
                          [CIdle EXCEPT !.kind = "publish", !.pc = "done",
                                        !.status = 401]]
            /\ UNCHANGED content
       ELSE IF content = NoRow
       THEN /\ creq' = [creq EXCEPT ![r] =
                          [CIdle EXCEPT !.kind = "publish", !.pc = "done",
                                        !.status = 500]]
            /\ UNCHANGED content
       ELSE /\ content' = [content EXCEPT !.status = "published"]
            /\ creq' = [creq EXCEPT ![r] =
                          [CIdle EXCEPT !.kind = "publish",
                                        !.pc = "invalidateId",
                                        !.data = content']]
    /\ UNCHANGED <<authVars, rateVars, likeVars, stripeVars, contentCount, versions, cache>>

\* ------------------------------------------ DELETE /api/content/[id]
\* authentication, the findUnique of the existing row, permission check
DeleteContent(r, admitted) ==
    /\ CFree(r)
    /\ creq' = [creq EXCEPT ![r] =
                  IF ~admitted
                  THEN [CIdle EXCEPT !.kind = "delete", !.pc = "done",
                                     !.status = 401]
                  ELSE IF content = NoRow
                  THEN [CIdle EXCEPT !.kind = "delete", !.pc = "done",
                                     !.status = 404]
                  ELSE [CIdle EXCEPT !.kind = "delete", !.pc = "delete"]]
    /\ UNCHANGED <<authVars, rateVars, likeVars, stripeVars, content, contentCount, versions, cache>>

\* prisma.content.delete; the cascade deletes the versions
DeleteRow(r) ==
    /\ creq[r].kind = "delete"
    /\ creq[r].pc = "delete"
    /\ IF content = NoRow
       THEN /\ creq' = CFinish(r, 500)
            /\ UNCHANGED <<content, versions>>
       ELSE /\ content' = NoRow
            /\ versions' = EmptyBag
            /\ creq' = [creq EXCEPT ![r].pc = "invalidateId"]
    /\ UNCHANGED <<authVars, rateVars, likeVars, stripeVars, contentCount, cache>>

\* --------------------------------------------- GET /api/content/[id]
\* getCached: without Redis the fallback answers; with it redis.get, and
\* a cached value is parsed and returned
GetContent(r, connected) ==
    /\ CFree(r)
    /\ LET started == [CIdle EXCEPT !.kind = "get"]
           answer(data) == [started EXCEPT
                              !.pc = "done", !.data = data,
                              !.status = IF data = NoRow THEN 404 ELSE 200]
       IN  creq' = [creq EXCEPT ![r] =
                      IF ~connected
                      THEN answer(content)
                      ELSE IF cache # NoCache
                      THEN answer(cache)
                      ELSE [started EXCEPT !.pc = "fallback"]]
    /\ UNCHANGED <<authVars, rateVars, likeVars, stripeVars, content, contentCount, versions, cache>>

\* const data = await fallback(): prisma.content.findUnique
GetFallback(r) ==
    /\ creq[r].kind = "get"
    /\ creq[r].pc = "fallback"
    /\ creq' = [creq EXCEPT ![r].pc = "setex", ![r].data = content]
    /\ UNCHANGED <<authVars, rateVars, likeVars, stripeVars, content, contentCount, versions, cache>>

\* await redis.setex(key, ttl, JSON.stringify(data)); return data
GetSetex(r) ==
    /\ creq[r].kind = "get"
    /\ creq[r].pc = "setex"
    /\ cache' = creq[r].data
    /\ creq' = CFinish(r, IF creq[r].data = NoRow THEN 404 ELSE 200)
    /\ UNCHANGED <<authVars, rateVars, likeVars, stripeVars, content, contentCount, versions>>

\* The response has been delivered to the caller.
CRespond(r) ==
    /\ creq[r].pc = "done"
    /\ creq' = [creq EXCEPT ![r] = CIdle]
    /\ UNCHANGED <<authVars, rateVars, likeVars, stripeVars, content, contentCount, versions, cache>>

\* Version history: an item is created and edited, Redis connected.
NextVersions ==
    \/ \E r \in Req, a \in BOOLEAN : PostContent(r, a)
    \/ \E r \in Req : PostCreate(r)
    \/ \E r \in Req, a \in BOOLEAN : PutContent(r, a)
    \/ \E r \in Req : PutUpdate(r)
    \/ \E r \in Req : CreateVersion(r)
    \/ \E r \in Req : InvalidateId(r, TRUE)
    \/ \E r \in Req : InvalidateAll(r, TRUE)
    \/ \E r \in Req : CRespond(r)

SpecVersions == Init /\ [][NextVersions]_vars

\* Reads through the cache while the item is written, Redis connected.
NextCache ==
    \/ \E r \in Req : PostContent(r, TRUE)
    \/ \E r \in Req : PostCreate(r)
    \/ \E r \in Req : PutContent(r, TRUE)
    \/ \E r \in Req : PutUpdate(r)
    \/ \E r \in Req : PublishContent(r, TRUE)
    \/ \E r \in Req : DeleteContent(r, TRUE)
    \/ \E r \in Req : DeleteRow(r)
    \/ \E r \in Req : CreateVersion(r)
    \/ \E r \in Req : InvalidateId(r, TRUE)
    \/ \E r \in Req : InvalidateAll(r, TRUE)
    \/ \E r \in Req : GetContent(r, TRUE)
    \/ \E r \in Req : GetFallback(r)
    \/ \E r \in Req : GetSetex(r)
    \/ \E r \in Req : CRespond(r)

SpecCache == Init /\ [][NextCache]_vars

\* ===================================================== checkRateLimit
RFree(r) == rl[r].pc = "idle" /\ \A q \in Req : q < r => rl[q].pc # "idle"

\* the key exists: it was set and has not reached its expiry
keyLive == counter > 0 /\ (expireAt = -1 \/ rclock < expireAt)

\* a limiter that lets one call too many through
isAllowedOneMore(current, limit) == current <= limit + 1

\* const allowed = current <= limit
isAllowed(current, limit) == current <= limit

\* Math.max(0, limit - current)
remainingOf(current, limit) ==
    IF limit - current > 0 THEN limit - current ELSE 0

\* return { allowed, remaining } computed from the counter value seen
Counted(current) ==
    [pc |-> "done", current |-> current,
     allowed |-> isAllowed(current, LIMIT),
     remaining |-> remainingOf(current, LIMIT)]

\* return { allowed: true, remaining: limit }: Redis is not connected, or
\* a Redis call rejected and the catch lets the request through
FailOpen(current) ==
    [pc |-> "done", current |-> current, allowed |-> TRUE,
     remaining |-> LIMIT]

\* isRedisConnected(), then const current = await redis.incr(key); when
\* current is not 1 the result follows at once
CheckRateLimit(r, connected, ok) ==
    /\ RFree(r)
    /\ counter < MaxCalls
    /\ LET current == IF keyLive THEN counter + 1 ELSE 1
       IN  IF ~connected \/ ~ok
           THEN /\ rl' = [rl EXCEPT ![r] = FailOpen(0)]
                /\ UNCHANGED <<counter, expireAt, grants>>
           ELSE /\ counter' = current
                /\ expireAt' = IF keyLive THEN expireAt ELSE -1
                /\ rl' = [rl EXCEPT ![r] =
                             IF current = 1
                             THEN [RIdle EXCEPT !.pc = "expire",
                                                !.current = current]
                             ELSE Counted(current)]
                /\ grants' = IF ~keyLive THEN 0
                             ELSE IF isAllowed(current, LIMIT)
                             THEN grants + 1 ELSE grants
    /\ UNCHANGED <<authVars, contentVars, likeVars, stripeVars, rclock>>

\* if (current === 1) await redis.expire(key, window)
RateExpire(r, ok) ==
    /\ rl[r].pc = "expire"
    /\ expireAt' = IF ok /\ keyLive THEN rclock + WINDOW ELSE expireAt
    /\ rl' = [rl EXCEPT ![r] = IF ok THEN Counted(rl[r].current)
                                    ELSE FailOpen(rl[r].current)]
    /\ grants' = IF ok => isAllowed(rl[r].current, LIMIT)
                 THEN grants + 1 ELSE grants
    /\ UNCHANGED <<authVars, contentVars, likeVars, stripeVars, counter, rclock>>

\* the process stops between the increment and the expire
RateInterrupt(r) ==
    /\ rl[r].pc = "expire"
    /\ rl' = [rl EXCEPT ![r] = RIdle]
    /\ UNCHANGED <<authVars, contentVars, likeVars, stripeVars, counter, expireAt, rclock, grants>>

\* the caller has the result
RateReturn(r) ==
    /\ rl[r].pc = "done"
    /\ rl' = [rl EXCEPT ![r] = RIdle]
    /\ UNCHANGED <<authVars, contentVars, likeVars, stripeVars, counter, expireAt, rclock, grants>>

RateTick ==
    /\ rclock < MaxRateTime
    /\ rclock' = rclock + 1
    /\ UNCHANGED <<authVars, contentVars, likeVars, stripeVars, counter, expireAt, grants, rl>>

\* One window of one key, Redis connected and answering.
NextRate ==
    \/ \E r \in Req : CheckRateLimit(r, TRUE, TRUE)
    \/ \E r \in Req : RateExpire(r, TRUE)
    \/ \E r \in Req : RateReturn(r)

SpecRate == Init /\ [][NextRate]_vars

\* One key over several windows, with a Redis that can reject a call and
\* a process that can stop.
NextRateFaults ==
    \/ \E r \in Req, c, ok \in BOOLEAN : CheckRateLimit(r, c, ok)
    \/ \E r \in Req, ok \in BOOLEAN : RateExpire(r, ok)
    \/ \E r \in Req : RateInterrupt(r)
    \/ \E r \in Req : RateReturn(r)
    \/ RateTick

SpecRateFaults == Init /\ [][NextRateFaults]_vars

\* =============================================== comment like / unlike
LFree(r) ==
    lreq[r].kind = "idle" /\ \A q \in Req : q < r => lreq[q].kind # "idle"

\* POST /api/comments/[id]/like: authentication and the findUnique of the
\* comment
LikeComment(r, admitted) ==
    /\ LFree(r)
    /\ lreq' = [lreq EXCEPT ![r] =
                  IF ~admitted
                  THEN [LIdle EXCEPT !.kind = "like", !.pc = "done",
                                     !.status = 401]
                  ELSE [LIdle EXCEPT !.kind = "like", !.pc = "update",
                                     !.comment = likes]]
    /\ UNCHANGED <<authVars, contentVars, rateVars, stripeVars, likes>>

\* prisma.comment.update with likes: { increment: 1 }
LikeUpdate(r) ==
    /\ lreq[r].kind = "like"
    /\ lreq[r].pc = "update"
    /\ likes < MaxLikes
    /\ likes' = likes + 1
    /\ lreq' = [lreq EXCEPT ![r].pc = "invalidate"]
    /\ UNCHANGED <<authVars, contentVars, rateVars, stripeVars>>

\* POST /api/comments/[id]/unlike: authentication, the findUnique of the
\* comment and the test of the likes it read
UnlikeComment(r, admitted) ==
    /\ LFree(r)
    /\ lreq' = [lreq EXCEPT ![r] =
                  IF ~admitted
                  THEN [LIdle EXCEPT !.kind = "unlike", !.pc = "done",
                                     !.status = 401]
                  ELSE IF likes <= 0
                  THEN [LIdle EXCEPT !.kind = "unlike", !.pc = "done",
                                     !.comment = likes, !.status = 400]
                  ELSE [LIdle EXCEPT !.kind = "unlike", !.pc = "update",
                                     !.comment = likes]]
    /\ UNCHANGED <<authVars, contentVars, rateVars, stripeVars, likes>>

\* prisma.comment.update with likes: { decrement: 1 }
UnlikeUpdate(r) ==
    /\ lreq[r].kind = "unlike"
    /\ lreq[r].pc = "update"
    /\ likes' = likes - 1
    /\ lreq' = [lreq EXCEPT ![r].pc = "invalidate"]
    /\ UNCHANGED <<authVars, contentVars, rateVars, stripeVars>>

\* await invalidateCache("comments:*"), then the success response
LikeInvalidate(r) ==
    /\ lreq[r].pc = "invalidate"
    /\ lreq' = [lreq EXCEPT ![r].pc = "done", ![r].status = 200]
    /\ UNCHANGED <<authVars, contentVars, rateVars, stripeVars, likes>>

LikeRespond(r) ==
    /\ lreq[r].pc = "done"
    /\ lreq' = [lreq EXCEPT ![r] = LIdle]
    /\ UNCHANGED <<authVars, contentVars, rateVars, stripeVars, likes>>

\* Likes and unlikes of one comment.
NextLikes ==
    \/ \E r \in Req, a \in BOOLEAN : LikeComment(r, a)
    \/ \E r \in Req : LikeUpdate(r)
    \/ \E r \in Req, a \in BOOLEAN : UnlikeComment(r, a)
    \/ \E r \in Req : UnlikeUpdate(r)
    \/ \E r \in Req : LikeInvalidate(r)
    \/ \E r \in Req : LikeRespond(r)

SpecLikes == Init /\ [][NextLikes]_vars

\* ====================================================== Stripe webhook
WFree(r) == wreq[r].pc = "idle" /\ \A q \in Req : q < r => wreq[q].pc # "idle"

\* stripePaymentId: invoice.payment_intent || invoice.id
stripePaymentId(event) ==
    IF event.payment_intent # "" THEN event.payment_intent ELSE event.object

hasPayment(p, id) == \E x \in p : x.stripePaymentId = id

\* POST /api/webhooks/stripe (`again`: Stripe sends an event it has
\* delivered before): the signature check, getUserIdFromCustomer,
\* getSubscriptionId and, for a succeeded invoice with a payment_intent,
\* the findUnique of the existing payment
WebhookReceive(r, event, signed) ==
    /\ WFree(r)
    /\ wreq' = [wreq EXCEPT ![r] =
                  IF ~signed
                  THEN [WIdle EXCEPT !.pc = "done", !.event = event,
                                     !.again = event \in delivered,
                                     !.status = 400]
                  ELSE [WIdle EXCEPT
                          !.pc = "write", !.event = event,
                          !.again = event \in delivered,
                          !.existingPayment =
                              /\ event.type = "invoice.payment_succeeded"
                              /\ event.payment_intent # ""
                              /\ hasPayment(payments, event.payment_intent)]]
    /\ UNCHANGED <<authVars, contentVars, rateVars, likeVars, subscriptions,
                   payments, delivered>>

\* the handler's write: prisma.subscription.create, prisma.payment.update
\* or prisma.payment.create. A create of an id that is already stored
\* rejects, and the rejection reaches POST's catch.
WebhookWrite(r) ==
    /\ wreq[r].pc = "write"
    /\ LET event == wreq[r].event
           id == stripePaymentId(event)
           paid == [stripePaymentId |-> id, stripeInvoiceId |-> event.object,
                    status |-> "succeeded"]
           failed == [paid EXCEPT !.status = "failed"]
       IN  IF event.type = "customer.subscription.created"
           THEN IF event.object \in subscriptions
                THEN /\ wreq' = [wreq EXCEPT ![r].pc = "done",
                                             ![r].status = 500]
                     /\ UNCHANGED <<subscriptions, payments>>
                ELSE /\ subscriptions' = subscriptions \cup {event.object}
                     /\ wreq' = [wreq EXCEPT ![r].pc = "done",
                                             ![r].status = 200]
                     /\ UNCHANGED payments
           ELSE IF wreq[r].existingPayment
           THEN /\ payments' =
                      {IF x.stripePaymentId = id
                       THEN [x EXCEPT !.status = "succeeded"] ELSE x :
                          x \in payments}
                /\ wreq' = [wreq EXCEPT ![r].pc = "done", ![r].status = 200]
                /\ UNCHANGED subscriptions
           ELSE IF hasPayment(payments, id)
           THEN /\ wreq' = [wreq EXCEPT ![r].pc = "done", ![r].status = 500]
                /\ UNCHANGED <<subscriptions, payments>>
           ELSE /\ payments' =
                      payments \cup
                          {IF event.type = "invoice.payment_succeeded"
                           THEN paid ELSE failed}
                /\ wreq' = [wreq EXCEPT ![r].pc = "done", ![r].status = 200]
                /\ UNCHANGED subscriptions
    /\ UNCHANGED <<authVars, contentVars, rateVars, likeVars, delivered>>

\* Stripe has the response; an event answered 200 counts as delivered
WebhookRespond(r) ==
    /\ wreq[r].pc = "done"
    /\ delivered' = IF wreq[r].status = 200
                    THEN delivered \cup {wreq[r].event} ELSE delivered
    /\ wreq' = [wreq EXCEPT ![r] = WIdle]
    /\ UNCHANGED <<authVars, contentVars, rateVars, likeVars, subscriptions,
                   payments>>

\* Stripe delivers events, some of them more than once.
NextStripe ==
    \/ \E r \in Req, e \in Events, signed \in BOOLEAN :
           WebhookReceive(r, e, signed)
    \/ \E r \in Req : WebhookWrite(r)
    \/ \E r \in Req : WebhookRespond(r)

SpecStripe == Init /\ [][NextStripe]_vars

TypeOK ==
    /\ now \in 0..MaxTime
    /\ nanoidCount \in 0..MaxTokens
    /\ localStorage \in 0..MaxTokens
    /\ \A rt \in store : rt.token \in TokenValues
    /\ env \in {"", CONFIGURED_SECRET}
    /\ \A r \in Req :
          req[r].isPasswordValid \in {"unset", "true", "false", "threw"}

\* ------------------------------------------------------------ properties
HasRecord(s, token) == findUniqueToken(s, token) # NoRecord

\* request r is a refresh that returned a new token pair
Refreshed(r) ==
    /\ req[r].kind = "refresh"
    /\ req[r].pc = "done"
    /\ req[r].resp.status = 200

\* C1: of two refresh requests that carry the same token and run
\* concurrently, at most one returns a new token pair.  Over a store that
\* never fails a token is gone once a refresh with it has returned, so two
\* refreshes that both returned a pair for one token overlapped.
C1_AtMostOneWinner ==
    \A r1, r2 \in Req :
        (r1 # r2 /\ Refreshed(r1) /\ Refreshed(r2))
            => req[r1].token # req[r2].token

\* C2: once a refresh with token t has returned a pair, a refresh request
\* with the same t that starts afterwards is answered 401 "Invalid or
\* expired refresh token" (or the opaque 500 when the lookup itself fails)
\* and goes no further.
C2_SingleUse ==
    [][\A r1, r2 \in Req :
          (/\ Refreshed(r1)
           /\ req[r2].kind = "idle"
           /\ req'[r2].kind = "refresh"
           /\ req'[r2].token = req[r1].token)
          => (/\ req'[r2].pc = "done"
              /\ req'[r2].resp \in {InvalidRefresh, Error500("refresh")})]_vars

\* C3: the store never holds both the token a successful refresh presented
\* and the token that refresh issued.
C3_RevokeBeforeIssue ==
    \A r \in Req :
        Refreshed(r) =>
            ~(HasRecord(store, req[r].token)
              /\ HasRecord(store, req[r].resp.refreshToken))

C5_FreshToken ==
    \A r \in Req : Refreshed(r) => req[r].resp.refreshToken # req[r].token

C5_Witness ==
    \E r \in Req :
        /\ Refreshed(r)
        /\ HasRecord(store, req[r].resp.refreshToken)
        /\ ~HasRecord(store, req[r].token)

C7_DeleteFailurePropagates ==
    [][\A r \in Req :
          (/\ req[r].kind = "refresh"
           /\ req[r].pc = "revoke"
           /\ req'[r].pc # "revoke"
           /\ HasRecord(store, req[r].token)
           /\ HasRecord(store', req[r].token))
          => (/\ req'[r].pc = "done"
              /\ req'[r].resp = Error500("refresh"))]_vars

\* C8: revokeRefreshToken never raises, leaves the store as it is when the
\* token has no record, and revoking twice leaves what revoking once leaves.
C8_RevokeIdempotent ==
    \A t \in TokenValues, ok \in BOOLEAN :
        LET once == revokeRefreshToken(store, t, TRUE)
            again == revokeRefreshToken(once.store, t, ok)
        IN  /\ ~revokeRefreshToken(store, t, ok).threw
            /\ ~HasRecord(store, t)
                  => revokeRefreshToken(store, t, ok).store = store
            /\ ~again.threw
            /\ again.store = once.store

\* a revoked token (generated, no record) next to a stored one
C8_Witness ==
    \E t1, t2 \in 1..nanoidCount :
        /\ ~HasRecord(store, t1)
        /\ HasRecord(store, t2)
        /\ revokeRefreshToken(store, t2, TRUE).store # store

\* C9: when the client logs out, the refresh token of its session has no
\* record in the store any more.
C9_LogoutRevokes ==
    [][(localStorage # 0 /\ localStorage' = 0)
          => ~HasRecord(store', localStorage)]_vars

\* the login handler looked the user up and found one of the three cases
NoSuchUser(r) == req[r].user = NoUser
NullPassword(r) == req[r].user # NoUser /\ req[r].user.password = NoPassword
WrongPassword(r) ==
    /\ req[r].user # NoUser
    /\ req[r].user.password # NoPassword
    /\ ~verifyPassword(req[r].password, req[r].user.password).value

LoginLookedUp(r) ==
    req[r].kind = "login" /\ req[r].pc = "done" /\ req[r].user # Unset

\* C10: a login that found no user, a user with a null password or a
\* password that does not match answers 401 "Invalid credentials" in all
\* three cases, the same response.
C10_GenericLoginFailure ==
    \A r \in Req :
        (LoginLookedUp(r)
         /\ (NoSuchUser(r) \/ NullPassword(r) \/ WrongPassword(r)))
            => req[r].resp = InvalidCredentials

\* two finished logins in different cases side by side
C10_Witness ==
    \E r1, r2 \in Req :
        /\ LoginLookedUp(r1) /\ LoginLookedUp(r2)
        /\ NoSuchUser(r1)
        /\ WrongPassword(r2)
        /\ req[r1].resp = req[r2].resp

\* the response of request r carries no token
NoTokens(r) ==
    /\ req[r].resp.accessToken = NoAccessToken
    /\ req[r].resp.refreshToken = 0

\* C11: a login whose lookup found no user, or a user with a null
\* password, never calls verifyPassword and never issues tokens.
C11_NoCheckWithoutPassword ==
    \A r \in Req :
        (req[r].kind = "login" /\ req[r].user # Unset
         /\ (NoSuchUser(r) \/ NullPassword(r)))
            => /\ req[r].isPasswordValid = "unset"
               /\ req[r].pc = "done"
               /\ NoTokens(r)

\* a finished login against the account that has no password
C11_Witness ==
    \E r \in Req :
        /\ LoginLookedUp(r)
        /\ NullPassword(r)
        /\ req[r].resp.status = 401

\* request r is a register that passed the rate limit and validation and
\* returns in this step, from its lookup or from its create
RegisterReturns(r) ==
    /\ req[r].pc \in {"idle", "createUser"}
    /\ req'[r].kind = "register"
    /\ req'[r].pc = "done"
    /\ req'[r].email # ""

\* C12: a register whose email already belongs to a user, one that was
\* there before or one a concurrent register created before this request's
\* create, answers 409 "User with this email already exists", creates no
\* user and issues no tokens.
C12_DuplicateEmailConflict ==
    [][\A r \in Req :
          (RegisterReturns(r)
           /\ findUniqueUser(users, req'[r].email) # NoUser)
              => /\ req'[r].resp = UserExists
                 /\ users' = users
                 /\ req'[r].resp.accessToken = NoAccessToken
                 /\ req'[r].resp.refreshToken = 0]_vars

\* C13: every user that register created has the role author, whatever
\* role or other extra field the request body carried.
C13_RegisteredAsAuthor ==
    \A u \in users \ SeedUsers : u.role = "author"

\* a register whose body asked for the role admin has created its user
C13_Witness ==
    \E r \in Req :
        /\ req[r].kind = "register"
        /\ req[r].bodyRole = "admin"
        /\ req[r].user \in users \ SeedUsers
        /\ req[r].resp.status = 201

\* request r returns in this step
Returns(r) == req[r].pc # "done" /\ req'[r].pc = "done"

\* C14: login, register and refresh return an access token and a refresh
\* token together or neither of them; when they return a pair, the refresh
\* token has a record in the store whose userId is the userId claim of the
\* access token.
C14_PairOrNothing ==
    [][\A r \in Req :
          Returns(r) =>
              LET resp == req'[r].resp
              IN  /\ resp.accessToken = NoAccessToken
                        <=> resp.refreshToken = 0
                  /\ resp.refreshToken # 0 =>
                        /\ HasRecord(store', resp.refreshToken)
                        /\ findUniqueToken(store', resp.refreshToken).userId
                               = resp.accessToken.userId]_vars

\* a refresh has returned a pair while a registered user holds a token
C14_Witness ==
    /\ \E r \in Req :
          /\ Refreshed(r)
          /\ HasRecord(store, req[r].resp.refreshToken)
    /\ \E u \in users \ SeedUsers : \E rt \in store : rt.userId = u.id

\* C15: hasPermission(role, action) is true exactly when the role's
\* permission set contains "*", or contains a pattern ending in ":*" whose
\* prefix up to and including the colon is a prefix of the action, or
\* contains the action itself.
C15_HasPermission ==
    lib.fn = "hasPermission" =>
        LET permissions == getUserPermissions(lib.userRole)
        IN  lib.result <=>
                \/ "*" \in permissions
                \/ \E p \in permissions :
                       /\ endsWith(p, ":*")
                       /\ startsWith(lib.permission,
                                     SubSeq(p, 1, Len(p) - 1))
                \/ lib.permission \in permissions

\* the header carries no token: it is null, does not begin with the exact
\* text "Bearer ", or has nothing after it
NoBearerToken(authHeader) ==
    \/ authHeader = Null
    \/ ~startsWith(authHeader[1], "Bearer ")
    \/ Len(authHeader[1]) = Len("Bearer ")

\* C16: authenticateRequest returns null when the header is null, does not
\* begin with the exact text "Bearer ", or has nothing after it; otherwise
\* it hands everything after the first seven characters, unchanged, to
\* verifyAccessToken and returns what that returns.
C16_AuthenticateRequest ==
    lib.fn = "authenticateRequest" =>
        IF NoBearerToken(lib.authHeader)
        THEN /\ lib.result.passed = Null
             /\ lib.result.outcome = Returned(NoPayload)
        ELSE /\ lib.result.passed
                    = <<SubSeq(lib.authHeader[1], 8, Len(lib.authHeader[1]))>>
             /\ lib.result.outcome
                    = verifyAccessToken(lib.result.passed[1], lib.clock)

\* a header with two spaces after the scheme: the token was passed on
\* with its leading space and so did not verify
C16_Witness ==
    /\ lib.fn = "authenticateRequest"
    /\ lib.authHeader = <<"Bearer  eyJ.a.env">>
    /\ lib.result.passed = <<" eyJ.a.env">>
    /\ lib.result.outcome = Returned(NoPayload)

\* C17: canModifyResource is true exactly when the role is admin or editor
\* or the userId equals the resource's owner id.
C17_CanModifyResource ==
    lib.fn = "canModifyResource" =>
        (lib.result <=> \/ lib.userRole \in {"admin", "editor"}
                        \/ lib.userId = lib.resourceOwnerId)

\* an editor was asked about a resource somebody else owns
C17_Witness ==
    /\ lib.fn = "canModifyResource"
    /\ lib.userRole = "editor"
    /\ lib.userId # lib.resourceOwnerId

\* C18: verifyAccessToken never raises; for a malformed token, a bad
\* signature and an expired token alike it returns the same null.
C18_VerifyAccessTokenTotal ==
    lib.fn = "verifyAccessToken" =>
        /\ ~lib.result.threw
        /\ jwtVerify(lib.token, JWT_SECRET, lib.clock).threw
               => lib.result = Returned(NoPayload)

\* a token of this process was verified after its exp
C18_Witness ==
    /\ lib.fn = "verifyAccessToken"
    /\ lib.token \in JwtTexts
    /\ jwtDecode(lib.token).secret = JWT_SECRET
    /\ lib.clock >= jwtDecode(lib.token).exp

\* C19: verifyPassword returns false and never raises when the hash
\* comparison fails, as on a malformed stored hash.
C19_VerifyPasswordTotal ==
    lib.fn = "verifyPassword" =>
        /\ ~lib.result.threw
        /\ lib.hash # hashPassword(lib.password) => ~lib.result.value

\* C20: when the signing secret is not configured, no access token is
\* signed with the built-in default secret and none is accepted under it.
C20_NoDefaultSecret ==
    /\ \A r \in Req :
          req[r].resp.accessToken # NoAccessToken
              => req[r].resp.accessToken.secret # DEFAULT_JWT_SECRET
    /\ lib.fn = "generateAccessToken"
          => lib.result.secret # DEFAULT_JWT_SECRET
    /\ (lib.fn = "verifyAccessToken" /\ lib.result.value # NoPayload)
          => jwtDecode(lib.token).secret # DEFAULT_JWT_SECRET

\* C21: the result of authenticateRequest depends only on the header, the
\* signing secret and the clock. The call changes no user and no refresh
\* token, and after any revocation, user deletion or role change the same
\* header at the same clock still gives the recorded result.
C21_Stateless ==
    [][/\ lib'.fn = "authenticateRequest"
            => (lib.result
                   = authenticateRequest(lib.authHeader, lib.clock))'
       /\ (lib' # lib /\ lib'.fn = "authenticateRequest")
            => users' = users /\ store' = store]_vars

\* a header was accepted, and afterwards its user was deleted while a
\* refresh token of theirs had been revoked
C21_Witness ==
    /\ lib.fn = "authenticateRequest"
    /\ lib.result.outcome.value # NoPayload
    /\ lib.clock < REFRESH_TOKEN_DAYS
    /\ findUserById(users, lib.result.outcome.value.userId) = NoUser
    /\ nanoidCount > 0
    /\ store = {}

\* the step is a run of cleanExpiredTokens: of the periodic job's steps
\* the only one that moves neither a request nor the clock
SweepStep == req' = req /\ now' = now

\* C22: cleanExpiredTokens deletes exactly the refresh-token records whose
\* expiresAt is strictly before the current time; the records with
\* expiresAt at or after the current time, and all user records, are left
\* unchanged.
C22_SweepFrame ==
    [][SweepStep =>
          /\ store' = {rt \in store : rt.expiresAt >= now}
          /\ users' = users]_vars

\* after a sweep: an expired token is gone, a later one was kept
C22_Witness ==
    /\ Cardinality(store) < nanoidCount
    /\ \E rt \in store : rt.expiresAt > now
    /\ cleanExpiredTokens(store, now) = store

\* request r enters its handler in this step and the rate limiter reports
\* allowed = false
Denied(r) == req[r].kind = "idle" /\ req'[r].allowed = "false"

\* C23: when checkRateLimit reports allowed = false, login and register
\* return 429 with the X-RateLimit-Remaining header and perform no user
\* lookup, no password hashing or verification, no user creation and no
\* token issuance.
C23_RateLimited ==
    [][\A r \in Req :
          Denied(r) =>
              /\ req'[r].pc = "done"
              /\ req'[r].resp.status = 429
              /\ "X-RateLimit-Remaining" \in req'[r].resp.headers
              /\ req'[r].user = Unset
              /\ req'[r].isPasswordValid = "unset"
              /\ req'[r].resp.accessToken = NoAccessToken
              /\ req'[r].resp.refreshToken = 0
              /\ users' = users
              /\ store' = store
              /\ nanoidCount' = nanoidCount]_vars

\* a denied login next to a denied register
C23_Witness ==
    \E r1, r2 \in Req :
        /\ req[r1].kind = "login" /\ req[r1].allowed = "false"
        /\ req[r2].kind = "register" /\ req[r2].allowed = "false"

\* no content request is between its entry and its response
Quiet == \A r \in Req : creq[r].pc \in {"idle", "done"}

\* C24: once the requests that created and edited a content item have
\* returned, its ContentVersion records carry exactly the version numbers
\* 1 up to the item's current version, each number once, whether the PUT
\* requests ran one after another or concurrently.
C24_VersionHistory ==
    (Quiet /\ content # NoRow) =>
        /\ BagToSet(versions) = 1..content.version
        /\ \A v \in 1..content.version : CopiesIn(v, versions) = 1

\* two PUT requests that overlapped have both returned success
C24_Witness ==
    /\ \A r \in Req : /\ creq[r].kind = "put"
                       /\ creq[r].pc = "done"
                       /\ creq[r].status = 200
    /\ content.version = 3

\* request r is a GET that starts in this step and is answered from the
\* cache
GetHit(r) ==
    /\ creq[r].kind = "idle"
    /\ creq'[r].kind = "get"
    /\ creq'[r].pc = "done"

\* C25: a GET that starts after every PUT, publish and DELETE on the item
\* has returned reflects those changes: the row it returns is the row as
\* the last of them left it (or 404 after a DELETE), also when an earlier
\* GET overlapped the write.
C25_ReadYourWrites ==
    [][\A r \in Req :
          (GetHit(r) /\ Quiet /\ creq'[r].data # NoRow)
              => creq'[r].data = content]_vars

\* refresh r takes a step that is not its success response: it goes on
\* inside the handler, where the caller may abandon it, or it answers 401
\* or 500
RefreshStepWithoutSuccess(r) ==
    /\ req[r].kind = "refresh"
    /\ req[r].pc # "done"
    /\ req'[r] # req[r]
    /\ req'[r].pc = "done" => req'[r].resp.status \in {401, 500}

\* C26: a refresh request that ends in 401 or 500, or is abandoned before
\* it responds, leaves the refresh-token store as it was: no step of it,
\* other than the one that returns the new pair, removes the record of
\* the token it was given.
C26_FailedRefreshKeepsToken ==
    [][\A r \in Req :
          (RefreshStepWithoutSuccess(r) /\ HasRecord(store, req[r].token))
              => HasRecord(store', req[r].token)]_vars

\* C27: while Redis is connected and answering, within one window of a key
\* at most `limit` checkRateLimit calls return allowed = true, however the
\* concurrent calls interleave, and each call's remaining is
\* max(0, limit - the counter value it observed).
C27_AtMostLimit ==
    /\ grants <= LIMIT
    /\ \A r \in Req :
          rl[r].pc = "done" =>
              /\ rl[r].allowed <=> rl[r].current <= LIMIT
              /\ rl[r].remaining
                    = IF rl[r].current < LIMIT
                      THEN LIMIT - rl[r].current ELSE 0

\* the limit has been granted in full and a further call was denied
C27_Witness ==
    /\ grants = LIMIT
    /\ \E r \in Req : /\ rl[r].pc = "done"
                       /\ ~rl[r].allowed
                       /\ rl[r].remaining = 0

\* C28: every rate-limit counter that checkRateLimit creates carries an
\* expiry once the call that created it is over, also when the expire
\* call fails or the process stops right after the increment; so a denied
\* key is allowed again at most `window` after its first counted request.
C28_CounterExpires ==
    (keyLive /\ \A r \in Req : rl[r].pc # "expire") => expireAt # -1

\* C29: under any interleaving of concurrent like and unlike requests on a
\* comment, its likes count is never negative.
C29_LikesNonNegative == likes >= 0

\* delivery r finishes in this step, of an event Stripe had already
\* delivered once before r was received
Redelivered(r) ==
    /\ wreq[r].pc = "write"
    /\ wreq'[r].pc = "done"
    /\ wreq[r].again

\* C30: delivering the same customer.subscription.created,
\* invoice.payment_succeeded or invoice.payment_failed event a second time
\* leaves the subscription and payment records as the first delivery left
\* them, and the second delivery is answered with 200.
C30_WebhookIdempotent ==
    [][\A r \in Req :
          Redelivered(r) =>
              /\ subscriptions' = subscriptions
              /\ payments' = payments
              /\ wreq'[r].status = 200]_vars
====
